---- MODULE Spec2Model ----
(***************************************************************************)
(* Model of src/pi_solver.py: gauss_legendre_pi(digits), the arbitrary-    *)
(* precision Gauss-Legendre pi engine, together with the decimal           *)
(* arithmetic (Decimal, localcontext) it is written against.               *)
(*                                                                         *)
(* A Decimal is a record [sign, int, exp] with value                       *)
(* (-1)^sign * int * 10^exp; int is the coefficient, a natural number     *)
(* held as a sequence of limbs in base 10^4, least significant first,      *)
(* without high zero limbs (zero is <<>>).  Coefficients are limb          *)
(* sequences because the working precision digits + 10 exceeds the range   *)
(* of machine integers.                                                    *)
(***************************************************************************)
EXTENDS Integers, Sequences, FiniteSets, TLC

(***************************************************************************)
(* Bounds of the model.                                                    *)
(***************************************************************************)
MaxRejected == 3
MaxDigits == 11
MaxConcDigits == 3
MaxIters == 5

(***************************************************************************)
(* Natural numbers (Python int) as limb sequences in base 10^4.            *)
(*                                                                         *)
(* An operator that uses an operand more than once first binds it as the   *)
(* element of a singleton set, The({e(x) : x \in {operand}}), so that the  *)
(* operand is evaluated exactly once wherever the operator is evaluated.   *)
(***************************************************************************)
Base == 10000

LimbDigits == 4

\* the element of the singleton set S
The(S) == CHOOSE r \in S : TRUE

Max2(m, n) == IF m >= n THEN m ELSE n

Min2(m, n) == IF m <= n THEN m ELSE n

\* the function f on 1..n as the tuple <<f[1], ..., f[n]>>
Tuple(f, n) == IF n <= 0 THEN <<>> ELSE SubSeq(f, 1, n)

Zeros(k) == Tuple([i \in 1..k |-> 0], k)

\* 10^k for k in 0..4
Pow10(k) == <<1, 10, 100, 1000, 10000>>[k + 1]

\* the index of the highest non-zero limb of s, 0 when there is none
TopIndex(s) ==
  CHOOSE k \in 0..Len(s) :
    (k = 0 \/ s[k] # 0) /\ \A j \in (k + 1)..Len(s) : s[j] = 0

\* s without its high zero limbs
Trim(s0) == The({SubSeq(s, 1, TopIndex(s)) : s \in {s0}})

Limb(x, i) == IF i >= 1 /\ i <= Len(x) THEN x[i] ELSE 0

NIsZero(x) == x = <<>>

\* the natural number n < Base^2
Nat2(n) == Trim(<<n % Base, n \div Base>>)

\* x * Base^k
ShiftL(x0, k) == The({IF NIsZero(x) THEN x ELSE Zeros(k) \o x : x \in {x0}})

\* -1, 0, 1 as x < y, x = y, x > y
NCmp(x0, y0) ==
  The({IF Len(x) # Len(y) THEN (IF Len(x) < Len(y) THEN -1 ELSE 1)
       ELSE LET df == {i \in 1..Len(x) : x[i] # y[i]}
            IN IF df = {} THEN 0
               ELSE LET k == CHOOSE i \in df : \A j \in df : i >= j
                    IN IF x[k] < y[k] THEN -1 ELSE 1
       : x \in {x0}, y \in {y0}})

\* The limbs of the sum of s[i] * Base^(i - 1), for limb sums
\* 0 <= s[i] <= 2 * Base - 2.  A carry enters limb i when a lower limb j
\* overflows and every limb between j and i passes the carry on.
CarrySum(s0) ==
  The({LET Cin(i) == \E j \in 1..(i - 1) :
                       /\ s[j] >= Base
                       /\ \A k \in (j + 1)..(i - 1) : s[k] >= Base - 1
       IN Trim(Tuple([i \in 1..(Len(s) + 1) |->
                        (Limb(s, i) + (IF Cin(i) THEN 1 ELSE 0)) % Base],
                     Len(s) + 1))
       : s \in {s0}})

\* x + y
NAdd(x0, y0) ==
  The({CarrySum(Tuple([i \in 1..Max2(Len(x), Len(y)) |->
                         Limb(x, i) + Limb(y, i)],
                      Max2(Len(x), Len(y))))
       : x \in {x0}, y \in {y0}})

\* The limbs of the sum of d[i] * Base^(i - 1), for limb differences
\* -Base < d[i] < Base with a non-negative sum.  A borrow leaves limb i when
\* a lower limb j is negative and every limb between is <= 0.
BorrowSum(d0) ==
  The({LET Bin(i) == \E j \in 1..(i - 1) :
                       /\ d[j] < 0
                       /\ \A k \in (j + 1)..(i - 1) : d[k] <= 0
       IN Trim(Tuple([i \in 1..Len(d) |->
                        (d[i] - (IF Bin(i) THEN 1 ELSE 0) + Base) % Base],
                     Len(d)))
       : d \in {d0}})

\* x - y for x >= y
NSub(x0, y0) ==
  The({BorrowSum(Tuple([i \in 1..Len(x) |-> x[i] - Limb(y, i)], Len(x)))
       : x \in {x0}, y \in {y0}})

\* x * m for 0 <= m < Base: the low halves of the limb products plus the
\* high halves one limb up
NMulS(x0, m0) ==
  The({IF m = 0 \/ NIsZero(x) THEN <<>>
       ELSE CarrySum(Tuple([i \in 1..(Len(x) + 1) |->
                              ((Limb(x, i) * m) % Base) +
                              ((Limb(x, i - 1) * m) \div Base)],
                           Len(x) + 1))
       : x \in {x0}, m \in {m0}})

\* sum over j in lo..hi of x * y[j] * Base^(j - 1)
RECURSIVE MulRange(_, _, _, _)
MulRange(x, y, lo, hi) ==
  IF lo = hi THEN ShiftL(NMulS(x, y[lo]), lo - 1)
  ELSE NAdd(MulRange(x, y, lo, (lo + hi) \div 2),
            MulRange(x, y, (lo + hi) \div 2 + 1, hi))

\* x * y
NMul(x0, y0) ==
  The({IF NIsZero(x) \/ NIsZero(y) THEN <<>> ELSE MulRange(x, y, 1, Len(y))
       : x \in {x0}, y \in {y0}})

\* The estimate of the quotient limb of r by y from their top limbs, for
\* r < y * Base and y with a top limb of at least Base / 2: at most two above
\* the quotient limb, never below it
QHat(r, y) ==
  Min2((Limb(r, Len(y) + 1) * Base + Limb(r, Len(y))) \div y[Len(y)], Base - 1)

\* The quotient limb and the remainder of r by y, from a candidate d that is
\* not below the quotient limb and its product pr = y * d
RECURSIVE QuotRem(_, _, _, _)
QuotRem(r, y, d, pr0) ==
  CHOOSE res \in {IF NCmp(pr, r) <= 0 THEN <<d, NSub(r, pr)>>
                  ELSE QuotRem(r, y, d - 1, NSub(pr, y))
                  : pr \in {pr0}} : TRUE

\* One step of the long division by y: the limb xi is brought down to the
\* remainder acc[2] and the quotient acc[1] gains a limb
DivLimb(acc, xi, y) ==
  The(UNION {{<< <<dr[1]>> \o acc[1], dr[2] >>
               : dr \in {QuotRem(r, y, QHat(r, y), NMulS(y, QHat(r, y)))}}
             : r \in {Trim(<<xi>> \o acc[2])}})

\* Long division of x by y over the limbs i, i - 1, ..., 1 of x; acc is the
\* quotient and the remainder of the limbs above limb i
RECURSIVE DivStep(_, _, _, _)
DivStep(x, y, i, acc0) ==
  CHOOSE res \in {IF i = 0 THEN acc
                  ELSE DivStep(x, y, i - 1, DivLimb(acc, x[i], y))
                  : acc \in {acc0}} : TRUE

\* floor(x / y) for x >= y whose top limb is at least Base / 2
LongDiv(x0, y0) ==
  The({Trim(DivStep(x, y, Len(x) - Len(y) + 1,
                    << <<>>, SubSeq(x, Len(x) - Len(y) + 2, Len(x)) >>)[1])
       : x \in {x0}, y \in {y0}})

\* the factor that brings the top limb of y to at least Base / 2
Scale(y) == Base \div (y[Len(y)] + 1)

\* x // y for y > 0
NDiv(x0, y0) ==
  The({IF NCmp(x, y) < 0 THEN <<>>
       ELSE LongDiv(NMulS(x, Scale(y)), NMulS(y, Scale(y)))
       : x \in {x0}, y \in {y0}})

\* divmod(x, y) for y > 0
NDivMod(x0, y0) ==
  The(UNION {{<<q, NSub(x, NMul(q, y))>> : q \in {NDiv(x, y)}}
             : x \in {x0}, y \in {y0}})

\* x >> 1
NHalf(x0) ==
  The({Trim(Tuple([i \in 1..Len(x) |->
                     (x[i] + (Limb(x, i + 1) % 2) * Base) \div 2], Len(x)))
       : x \in {x0}})

\* Newton's method for floor(sqrt(c)), from an n >= floor(sqrt(c))
RECURSIVE NewtonSqrt(_, _)
NewtonSqrt(c, n0) ==
  CHOOSE res \in UNION {{IF NCmp(n, q) <= 0 THEN n
                         ELSE NewtonSqrt(c, NHalf(NAdd(n, q)))
                         : q \in {NDiv(c, n)}}
                        : n \in {n0}} : TRUE

\* the number of decimal digits of x > 0
NumDigits(x0) ==
  The({LimbDigits * (Len(x) - 1) +
       (IF x[Len(x)] < 10 THEN 1 ELSE IF x[Len(x)] < 100 THEN 2
        ELSE IF x[Len(x)] < 1000 THEN 3 ELSE 4)
       : x \in {x0}})

\* x * 10^k
NShift(x0, k0) ==
  The({IF k % LimbDigits = 0 THEN ShiftL(x, k \div LimbDigits)
       ELSE ShiftL(NMulS(x, Pow10(k % LimbDigits)), k \div LimbDigits)
       : x \in {x0}, k \in {k0}})

\* floor(x / 10^k)
NDivPow10(x0, k0) ==
  The({LET w == k \div LimbDigits
           m == k % LimbDigits
       IN Trim(Tuple([i \in 1..(Len(x) - w) |->
                        (x[i + w] \div Pow10(m)) +
                        (Limb(x, i + w + 1) % Pow10(m)) * Pow10(LimbDigits - m)],
                     Len(x) - w))
       : x \in {x0}, k \in {k0}})

\* x % 10^k = 0
NModPow10IsZero(x0, k0) ==
  The({/\ \A i \in 1..(k \div LimbDigits) : Limb(x, i) = 0
       /\ Limb(x, k \div LimbDigits + 1) % Pow10(k % LimbDigits) = 0
       : x \in {x0}, k \in {k0}})

\* the decimal digit of x of weight 10^k
DigitAt(x0, k0) ==
  The({(Limb(x, k \div LimbDigits + 1) \div Pow10(k % LimbDigits)) % 10
       : x \in {x0}, k \in {k0}})

(***************************************************************************)
(* Decimal values and the context-governed operations of the decimal       *)
(* module that gauss_legendre_pi uses.  Every operation computes the exact *)
(* result and hands it to Fix, which rounds it to the precision and the    *)
(* rounding mode of the context.                                           *)
(***************************************************************************)
Roundings ==
  {"ROUND_HALF_EVEN", "ROUND_HALF_UP", "ROUND_HALF_DOWN", "ROUND_DOWN",
   "ROUND_UP", "ROUND_CEILING", "ROUND_FLOOR", "ROUND_05UP"}

Dec(s, c, e) == [sign |-> s, int |-> c, exp |-> e]

\* Decimal(n) for an integer literal 0 <= n < Base
DecLit(n) == Dec(0, Nat2(n), 0)

IsZero(d) == NIsZero(d.int)

\* are the m lowest decimal digits of c all zero
AllZeros(c, m) == NModPow10IsZero(c, m)

\* are the m lowest decimal digits of c exactly 5000...
ExactHalf(c, m) == DigitAt(c, m - 1) = 5 /\ NModPow10IsZero(c, m - 1)

RoundDown(c, m) == IF AllZeros(c, m) THEN 0 ELSE -1

RoundHalfUp(c, m) ==
  IF DigitAt(c, m - 1) >= 5 THEN 1 ELSE IF AllZeros(c, m) THEN 0 ELSE -1

\* The rounding functions of Decimal, for dropping the m >= 1 lowest digits
\* of d and keeping k.  1: round away from zero; 0: the dropped digits are
\* zeros; -1: truncate
RoundDir(d, k, m, rounding) ==
  LET c == d.int
  IN CASE rounding = "ROUND_DOWN"      -> RoundDown(c, m)
       [] rounding = "ROUND_UP"        -> -RoundDown(c, m)
       [] rounding = "ROUND_HALF_UP"   -> RoundHalfUp(c, m)
       [] rounding = "ROUND_HALF_DOWN" ->
            IF ExactHalf(c, m) THEN -1 ELSE RoundHalfUp(c, m)
       [] rounding = "ROUND_HALF_EVEN" ->
            IF ExactHalf(c, m) /\ (k = 0 \/ DigitAt(c, m) % 2 = 0)
            THEN -1 ELSE RoundHalfUp(c, m)
       [] rounding = "ROUND_CEILING"   ->
            IF d.sign = 1 THEN RoundDown(c, m) ELSE -RoundDown(c, m)
       [] rounding = "ROUND_FLOOR"     ->
            IF d.sign = 0 THEN RoundDown(c, m) ELSE -RoundDown(c, m)
       [] rounding = "ROUND_05UP"      ->
            IF k > 0 /\ DigitAt(c, m) \notin {0, 5}
            THEN RoundDown(c, m) ELSE -RoundDown(c, m)

\* the coefficient of d rounded to its k highest digits, d having n > k
Rounded(d, n, k, rounding) ==
  IF RoundDir(d, k, n - k, rounding) > 0
  THEN NAdd(NDivPow10(d.int, n - k), <<1>>)
  ELSE NDivPow10(d.int, n - k)

\* Decimal._fix: round d to at most ctx.prec significant digits
Fix(d0, ctx) ==
  The({IF IsZero(d) THEN d
       ELSE LET n == NumDigits(d.int)
                k == Max2(ctx.prec, 0)
            IN IF n <= k THEN d
               ELSE The({IF k > 0 /\ NumDigits(coeff) > k
                         THEN Dec(d.sign, NDivPow10(coeff, 1), n + d.exp - k + 1)
                         ELSE Dec(d.sign, coeff, n + d.exp - k)
                         : coeff \in {Rounded(d, n, k, ctx.rounding)}})
       : d \in {d0}})

\* the length of the coefficient string of d ('0' for zero)
CoeffLen(d) == IF IsZero(d) THEN 1 ELSE NumDigits(d.int)

\* _normalize: bring op1 and op2 to a common exponent
Normalize(op1, op2, prec) ==
  LET swap  == op1.exp < op2.exp
      tmp   == IF swap THEN op2 ELSE op1
      other == IF swap THEN op1 ELSE op2
      exp   == tmp.exp + Min2(-1, CoeffLen(tmp) - prec - 2)
      oth   == IF CoeffLen(other) + other.exp - 1 < exp
               THEN Dec(other.sign, <<1>>, exp) ELSE other
      tm    == Dec(tmp.sign, NShift(tmp.int, tmp.exp - oth.exp), oth.exp)
  IN IF swap THEN <<oth, tm>> ELSE <<tm, oth>>

\* the sum of op1 and op2, which have the same exponent
AddNormalized(op1, op2, exp, negativezero, ctx) ==
  IF op1.sign = op2.sign
  THEN Fix(Dec(op1.sign, NAdd(op1.int, op2.int), op1.exp), ctx)
  ELSE The({IF c = 0 THEN Dec(negativezero, <<>>, exp)
            ELSE IF c > 0
            THEN Fix(Dec(op1.sign, NSub(op1.int, op2.int), op1.exp), ctx)
            ELSE Fix(Dec(op2.sign, NSub(op2.int, op1.int), op1.exp), ctx)
            : c \in {NCmp(op1.int, op2.int)}})

\* Decimal.__add__
DAdd(x0, y0, ctx) ==
  The({LET exp == Min2(x.exp, y.exp)
           negativezero ==
             IF ctx.rounding = "ROUND_FLOOR" /\ x.sign # y.sign THEN 1 ELSE 0
       IN IF IsZero(x) /\ IsZero(y)
          THEN Dec(IF negativezero = 1 THEN 1 ELSE Min2(x.sign, y.sign),
                   <<>>, exp)
          ELSE IF IsZero(x)
          THEN LET e == Max2(exp, y.exp - ctx.prec - 1)
               IN Fix(Dec(y.sign, NShift(y.int, y.exp - e), e), ctx)
          ELSE IF IsZero(y)
          THEN LET e == Max2(exp, x.exp - ctx.prec - 1)
               IN Fix(Dec(x.sign, NShift(x.int, x.exp - e), e), ctx)
          ELSE The({AddNormalized(ops[1], ops[2], exp, negativezero, ctx)
                    : ops \in {Normalize(x, y, ctx.prec)}})
       : x \in {x0}, y \in {y0}})

DNeg(x) == Dec(1 - x.sign, x.int, x.exp)

\* operands exchanged: y - x
DSubSwapped(x, y, ctx) == DAdd(y, DNeg(x), ctx)

\* Decimal.__sub__
DSub(x, y, ctx) == DAdd(x, DNeg(y), ctx)

\* Decimal.__mul__
DMul(x0, y0, ctx) ==
  The({IF IsZero(x) \/ IsZero(y)
       THEN Dec(IF x.sign = y.sign THEN 0 ELSE 1, <<>>, x.exp + y.exp)
       ELSE Fix(Dec(IF x.sign = y.sign THEN 0 ELSE 1, NMul(x.int, y.int),
                    x.exp + y.exp), ctx)
       : x \in {x0}, y \in {y0}})

\* Decimal.__pow__ with the exponent 2
DSquare(x0, ctx) ==
  The({IF IsZero(x) THEN Dec(0, <<>>, 0)
       ELSE Fix(Dec(0, NMul(x.int, x.int), 2 * x.exp), ctx)
       : x \in {x0}})

\* strip trailing zeros of an exact quotient up to the ideal exponent
RECURSIVE ToIdeal(_, _, _)
ToIdeal(c0, exp, ideal) ==
  CHOOSE res \in {IF exp < ideal /\ DigitAt(c, 0) = 0
                  THEN ToIdeal(NDivPow10(c, 1), exp + 1, ideal)
                  ELSE <<c, exp>>
                  : c \in {c0}} : TRUE

\* the coefficient and the exponent of a quotient from divmod's result qr
Quotient(qr0, exp, ideal) ==
  The({IF ~NIsZero(qr[2])
       THEN <<IF Limb(qr[1], 1) % 5 = 0 THEN NAdd(qr[1], <<1>>) ELSE qr[1],
              exp>>
       ELSE ToIdeal(qr[1], exp, ideal)
       : qr \in {qr0}})

\* Decimal.__truediv__ for a non-zero divisor y
DDiv(x0, y0, ctx) ==
  The({IF IsZero(x)
       THEN Dec(IF x.sign = y.sign THEN 0 ELSE 1, <<>>, x.exp - y.exp)
       ELSE LET shift == NumDigits(y.int) - NumDigits(x.int) + ctx.prec + 1
            IN The({Fix(Dec(IF x.sign = y.sign THEN 0 ELSE 1, ce[1], ce[2]),
                        ctx)
                    : ce \in {Quotient(IF shift >= 0
                                       THEN NDivMod(NShift(x.int, shift), y.int)
                                       ELSE NDivMod(x.int, NShift(y.int, -shift)),
                                       x.exp - y.exp - shift, x.exp - y.exp)}})
       : x \in {x0}, y \in {y0}})

\* the rounding of Decimal.sqrt, whatever the context's
HalfEven(ctx) == [prec |-> ctx.prec, rounding |-> "ROUND_HALF_EVEN"]

\* The result of Decimal.sqrt from n = floor(sqrt(c)), c being the
\* coefficient scaled by 100^shift and e the halved exponent
SqrtResult(c, n0, exact0, shift, e, ctx) ==
  The({IF exact0 /\ NMul(n, n) = c
       THEN IF shift >= 0
            THEN Fix(Dec(0, NDivPow10(n, shift), e), HalfEven(ctx))
            ELSE Fix(Dec(0, NShift(n, -shift), e), HalfEven(ctx))
       ELSE Fix(Dec(0, IF Limb(n, 1) % 5 = 0 THEN NAdd(n, <<1>>) ELSE n,
                    e - shift), HalfEven(ctx))
       : n \in {n0}})

\* Decimal.sqrt for x >= 0; always rounds half-even
DSqrt(x0, ctx) ==
  The({IF IsZero(x) THEN Dec(x.sign, <<>>, x.exp \div 2)
       ELSE LET prec  == ctx.prec + 1
                odd   == x.exp % 2 = 1
                len   == NumDigits(x.int)
                l     == IF odd THEN (len \div 2) + 1 ELSE (len + 1) \div 2
                shift == prec - l
            IN The(UNION {
                 {SqrtResult(c, NewtonSqrt(c, NShift(<<1>>, prec)),
                             shift >= 0 \/ NModPow10IsZero(c0, -2 * shift),
                             shift, x.exp \div 2, ctx)
                  : c \in {IF shift >= 0 THEN NShift(c0, 2 * shift)
                           ELSE NDivPow10(c0, -2 * shift)}}
                 : c0 \in {IF odd THEN NShift(x.int, 1) ELSE x.int}})
       : x \in {x0}})

\* Decimal.__pos__
DPos(x0, ctx) ==
  The({IF IsZero(x) /\ ctx.rounding # "ROUND_FLOOR" THEN Dec(0, x.int, x.exp)
       ELSE Fix(x, ctx)
       : x \in {x0}})

\* Decimal.__abs__
DAbs(x0, ctx) ==
  The({IF x.sign = 1 THEN Fix(DNeg(x), ctx) ELSE DPos(x, ctx) : x \in {x0}})

\* -1, 0, 1 as |x| < |y|, |x| = |y|, |x| > |y|
CmpAbs(x, y) ==
  IF IsZero(x) \/ IsZero(y)
  THEN (IF IsZero(x) /\ IsZero(y) THEN 0 ELSE IF IsZero(x) THEN -1 ELSE 1)
  ELSE NCmp(NShift(x.int, x.exp - Min2(x.exp, y.exp)),
            NShift(y.int, y.exp - Min2(x.exp, y.exp)))

\* Decimal._cmp: -1, 0, 1 as x < y, x = y, x > y
DCmp(x0, y0) ==
  The({LET sx == IF IsZero(x) THEN 0 ELSE IF x.sign = 1 THEN -1 ELSE 1
           sy == IF IsZero(y) THEN 0 ELSE IF y.sign = 1 THEN -1 ELSE 1
       IN IF sx # sy THEN (IF sx < sy THEN -1 ELSE 1)
          ELSE IF sx = 0 THEN 0
          ELSE IF sx = 1 THEN CmpAbs(x, y) ELSE CmpAbs(y, x)
       : x \in {x0}, y \in {y0}})

DLess(x, y) == DCmp(x, y) < 0

(***************************************************************************)
(* The program state.  Every variable is a function of the calling thread. *)
(* A decimal context is a record [prec, rounding].  ambient[th] is the     *)
(* context object th runs under before it calls gauss_legendre_pi,         *)
(* local[th] the context object that localcontext() creates for th's call, *)
(* current[slot] names the context object that getcontext() returns, and   *)
(* saved[th] is the saved_context of th's context manager.                 *)
(***************************************************************************)
VARIABLES pc, digits, ambient, local, saved, current,
          a, b, t, p, threshold, pi_estimate,
          iters, result, err, usedPrec, a_prev, b_prev

vars == <<pc, digits, ambient, local, saved, current,
          a, b, t, p, threshold, pi_estimate,
          iters, result, err, usedPrec, a_prev, b_prev>>

Threads == {1, 2}

extra_precision == 10

DefaultPrec == 28

AmbientPrecs == {DefaultPrec, 5}

AmbientContexts == [prec : AmbientPrecs, rounding : Roundings]

\* the ambient contexts of the callers in the two-thread specification
ConcContexts ==
  { [prec |-> DefaultPrec, rounding |-> "ROUND_HALF_EVEN"],
    [prec |-> 5, rounding |-> "ROUND_UP"] }

\* a local that has not been assigned
Unset == Dec(0, <<-1>>, 0)

NoCtx == [prec |-> 0, rounding |-> "none"]

NoRef == <<"none", 0>>

\* one current context for the whole process
CtxSlotShared(self) == 1

\* the decimal module keeps the current context per thread
CtxSlot(self) == self

Deref(ref) == IF ref[1] = "ambient" THEN ambient[ref[2]] ELSE local[ref[2]]

\* decimal.getcontext() as called by thread self
GetContext(self) == Deref(current[CtxSlot(self)])

\* a threshold that has underflowed to zero
ThresholdZero(d) == Dec(0, <<>>, 0)

\* the exponent with the sign slipped: Decimal(10) ** (digits - 4)
ThresholdSlip(d) == Dec(0, <<1>>, d - 4)

\* Decimal(10) ** (-(digits + 2))
Threshold(d) == Dec(0, <<1>>, -(d + 2))

\* digits < 0: zero slips through
RejectedStrict(d) == d < 0

\* digits <= 0 is rejected
Rejected(d) == d <= 0

\* line 21-22: the call and its argument check
Call(self, d) ==
  /\ pc[self] = "idle"
  /\ digits' = [digits EXCEPT ![self] = d]
  /\ IF Rejected(d)
     THEN /\ pc' = [pc EXCEPT ![self] = "raised"]
          /\ err' = [err EXCEPT ![self] = "ValueError"]
     ELSE /\ pc' = [pc EXCEPT ![self] = "validated"]
          /\ err' = err
  /\ UNCHANGED <<ambient, local, saved, current, a, b, t, p, threshold,
                 pi_estimate, iters, result, usedPrec, a_prev, b_prev>>

\* line 26: with localcontext() as ctx
Enter(self) ==
  /\ pc[self] = "validated"
  /\ local' = [local EXCEPT ![self] = GetContext(self)]
  /\ saved' = [saved EXCEPT ![self] = current[CtxSlot(self)]]
  /\ current' = [current EXCEPT ![CtxSlot(self)] = <<"local", self>>]
  /\ pc' = [pc EXCEPT ![self] = "entered"]
  /\ UNCHANGED <<digits, ambient, a, b, t, p, threshold, pi_estimate,
                 iters, result, err, usedPrec, a_prev, b_prev>>

\* line 27: ctx.prec = digits + extra_precision
SetPrec(self) ==
  /\ pc[self] = "entered"
  /\ local' = [local EXCEPT ![self].prec = digits[self] + extra_precision]
  /\ pc' = [pc EXCEPT ![self] = "init"]
  /\ UNCHANGED <<digits, ambient, saved, current, a, b, t, p, threshold,
                 pi_estimate, iters, result, err, usedPrec, a_prev, b_prev>>

\* line 29-34: the initial iteration state and the threshold
InitState(self) ==
  /\ pc[self] = "init"
  /\ LET ctx == GetContext(self)
     IN /\ a' = [a EXCEPT ![self] = DecLit(1)]
        /\ b' = [b EXCEPT ![self] =
                   DDiv(DecLit(1), DSqrt(DecLit(2), ctx), ctx)]
        /\ t' = [t EXCEPT ![self] = Dec(0, Nat2(25), -2)]
        /\ p' = [p EXCEPT ![self] = DecLit(1)]
        /\ threshold' = [threshold EXCEPT ![self] = Threshold(digits[self])]
        /\ usedPrec' = [usedPrec EXCEPT ![self] = ctx.prec]
  /\ pc' = [pc EXCEPT ![self] = "loop"]
  /\ UNCHANGED <<digits, ambient, local, saved, current, pi_estimate,
                 iters, result, err, a_prev, b_prev>>

\* b computed from the updated a: (a_next * b).sqrt()
NextBFromNext(a0, b0, a_next, ctx) == DSqrt(DMul(a_next, b0, ctx), ctx)

\* line 38: b = (a * b).sqrt(), from the a and b before the update
NextB(a0, b0, a_next, ctx) == DSqrt(DMul(a0, b0, ctx), ctx)

\* line 45: the stopping test
Converged(a1, b1, th, ctx) == DLess(DAbs(DSub(a1, b1, ctx), ctx), th)

\* line 37-46: one iteration of the loop.  The square root of a negative
\* product and the division by a zero 4 * t raise, which leaves the with
\* block and restores the saved context.
Iterate(self) ==
  /\ pc[self] = "loop"
  /\ iters[self] < MaxIters
  /\ usedPrec' = [usedPrec EXCEPT ![self] = GetContext(self).prec]
  /\ \E ctx \in {GetContext(self)} :
     \E a_next \in {DDiv(DAdd(a[self], b[self], ctx), DecLit(2), ctx)} :
     \E ab \in {DMul(a[self], b[self], ctx)} :
       IF ab.sign = 1 /\ ~IsZero(ab)
       THEN /\ err' = [err EXCEPT ![self] = "InvalidOperation"]
            /\ pc' = [pc EXCEPT ![self] = "raised"]
            /\ current' = [current EXCEPT ![CtxSlot(self)] = saved[self]]
            /\ UNCHANGED <<a, b, t, p, pi_estimate, iters, a_prev, b_prev>>
       ELSE
         \E b1 \in {NextB(a[self], b[self], a_next, ctx)} :
         \E t1 \in {DSub(t[self],
                         DMul(p[self],
                              DSquare(DSub(a[self], a_next, ctx), ctx), ctx),
                         ctx)} :
         \E den \in {DMul(DecLit(4), t1, ctx)} :
           /\ a_prev' = [a_prev EXCEPT ![self] = a[self]]
           /\ b_prev' = [b_prev EXCEPT ![self] = b[self]]
           /\ a' = [a EXCEPT ![self] = a_next]
           /\ b' = [b EXCEPT ![self] = b1]
           /\ t' = [t EXCEPT ![self] = t1]
           /\ p' = [p EXCEPT ![self] = DMul(p[self], DecLit(2), ctx)]
           /\ IF IsZero(den)
              THEN /\ err' = [err EXCEPT ![self] = "DivisionByZero"]
                   /\ pc' = [pc EXCEPT ![self] = "raised"]
                   /\ current' = [current EXCEPT
                                    ![CtxSlot(self)] = saved[self]]
                   /\ UNCHANGED <<pi_estimate, iters>>
              ELSE /\ pi_estimate' = [pi_estimate EXCEPT ![self] =
                        DDiv(DSquare(DAdd(a_next, b1, ctx), ctx), den, ctx)]
                   /\ iters' = [iters EXCEPT ![self] = @ + 1]
                   /\ pc' = [pc EXCEPT ![self] =
                        IF Converged(a_next, b1, threshold[self], ctx)
                        THEN "exited" ELSE "loop"]
                   /\ UNCHANGED <<err, current>>
  /\ UNCHANGED <<digits, ambient, local, saved, threshold, result>>

\* line 48: ctx.prec = digits
SetFinalPrec(self) ==
  /\ pc[self] = "exited"
  /\ local' = [local EXCEPT ![self].prec = digits[self]]
  /\ pc' = [pc EXCEPT ![self] = "final"]
  /\ UNCHANGED <<digits, ambient, saved, current, a, b, t, p, threshold,
                 pi_estimate, iters, result, err, usedPrec, a_prev, b_prev>>

\* line 49: return +pi_estimate, leaving the with block
Return(self) ==
  /\ pc[self] = "final"
  /\ LET ctx == GetContext(self)
     IN /\ result' = [result EXCEPT ![self] = DPos(pi_estimate[self], ctx)]
        /\ usedPrec' = [usedPrec EXCEPT ![self] = ctx.prec]
  /\ current' = [current EXCEPT ![CtxSlot(self)] = saved[self]]
  /\ pc' = [pc EXCEPT ![self] = "done"]
  /\ UNCHANGED <<digits, ambient, local, saved, a, b, t, p, threshold,
                 pi_estimate, iters, err, a_prev, b_prev>>

InitCommon ==
  /\ digits = [th \in Threads |-> 0]
  /\ local = [th \in Threads |-> NoCtx]
  /\ saved = [th \in Threads |-> NoRef]
  /\ current = [th \in Threads |-> <<"ambient", th>>]
  /\ a = [th \in Threads |-> Unset]
  /\ b = [th \in Threads |-> Unset]
  /\ t = [th \in Threads |-> Unset]
  /\ p = [th \in Threads |-> Unset]
  /\ threshold = [th \in Threads |-> Unset]
  /\ pi_estimate = [th \in Threads |-> Unset]
  /\ iters = [th \in Threads |-> 0]
  /\ result = [th \in Threads |-> Unset]
  /\ err = [th \in Threads |-> "none"]
  /\ usedPrec = [th \in Threads |-> 0]
  /\ a_prev = [th \in Threads |-> Unset]
  /\ b_prev = [th \in Threads |-> Unset]

(***************************************************************************)
(* Spec: one call of gauss_legendre_pi from one thread, for every digits   *)
(* in -MaxRejected..MaxDigits and every ambient context of the caller.     *)
(***************************************************************************)
Init ==
  /\ InitCommon
  /\ pc = [th \in Threads |-> IF th = 1 THEN "idle" ELSE "off"]
  /\ \E c \in AmbientContexts :
       ambient = [th \in Threads |->
                    IF th = 1 THEN c
                    ELSE [prec |-> DefaultPrec, rounding |-> "ROUND_HALF_EVEN"]]

Next ==
  \/ \E d \in (-MaxRejected)..MaxDigits : Call(1, d)
  \/ Enter(1)
  \/ SetPrec(1)
  \/ InitState(1)
  \/ Iterate(1)
  \/ SetFinalPrec(1)
  \/ Return(1)

Spec == Init /\ [][Next]_vars

\* the interpreter runs the call to completion
FairSpec == Spec /\ WF_vars(Next)

(***************************************************************************)
(* ConcSpec: two threads, each making one call, interleaved line by line.  *)
(***************************************************************************)
ConcInit ==
  /\ InitCommon
  /\ pc = [th \in Threads |-> "idle"]
  /\ ambient \in [Threads -> ConcContexts]

ConcNext ==
  \E self \in Threads :
    \/ \E d \in 0..MaxConcDigits : Call(self, d)
    \/ Enter(self)
    \/ SetPrec(self)
    \/ InitState(self)
    \/ Iterate(self)
    \/ SetFinalPrec(self)
    \/ Return(self)

ConcSpec == ConcInit /\ [][ConcNext]_vars

(***************************************************************************)
(* SeqSpec: two calls, the second made after the first has returned or     *)
(* raised, each under the ambient context of its caller.                   *)
(***************************************************************************)
SeqNext ==
  \/ \E d \in (-MaxRejected)..MaxDigits : Call(1, d)
  \/ Enter(1)
  \/ SetPrec(1)
  \/ InitState(1)
  \/ Iterate(1)
  \/ SetFinalPrec(1)
  \/ Return(1)
  \/ /\ pc[1] \in {"done", "raised"}
     /\ \/ \E d \in (-MaxRejected)..MaxDigits : Call(2, d)
        \/ Enter(2)
        \/ SetPrec(2)
        \/ InitState(2)
        \/ Iterate(2)
        \/ SetFinalPrec(2)
        \/ Return(2)

SeqSpec == ConcInit /\ [][SeqNext]_vars

(***************************************************************************)
(* Properties.                                                             *)
(***************************************************************************)
\* pi truncated to 28 decimal places, 3.1415926535897932384626433832, as a
\* coefficient of 29 digits
PiCoeff == <<3832, 2643, 3846, 7932, 3589, 9265, 1415, 3>>

PiLo == Dec(0, PiCoeff, -28)

\* the first k digits of pi as a natural number
PiPrefix(k) == NDivPow10(PiCoeff, 29 - k)

\* a context wide enough for every difference below to be exact
ExactCtx == [prec |-> 90, rounding |-> "ROUND_HALF_EVEN"]

TenTo(e) == Dec(0, <<1>>, e)

AbsDiff(x, y) == DAbs(DSub(x, y, ExactCtx), ExactCtx)

\* |r - pi| < 10^-d; r has far fewer decimal places than PiLo, so pi may be
\* replaced by PiLo
WithinOfPi(r, d) == DLess(AbsDiff(r, PiLo), TenTo(-d))

\* the context of th's call while it iterates
WorkCtx(th) ==
  [prec |-> digits[th] + extra_precision, rounding |-> ambient[th].rounding]

\* the context of th's call when it rounds the result
FinalCtx(th) == [prec |-> digits[th], rounding |-> ambient[th].rounding]

\* (a + b)^2 / (4t) from the current a, b and t of th
Estimate(th) ==
  DDiv(DSquare(DAdd(a[th], b[th], WorkCtx(th)), WorkCtx(th)),
       DMul(DecLit(4), t[th], WorkCtx(th)), WorkCtx(th))

\* the stopping test on the current a and b of th
TestHolds(th) == Converged(a[th], b[th], Threshold(digits[th]), WorkCtx(th))

InLoop(th) == pc[th] \in {"loop", "exited", "final", "done"}

\* C1: for digits in {1, 5, 10, 50, 100} the returned value differs from pi
\* by strictly less than 10^-digits.
C1_WithinTenToMinusDigits ==
  (pc[1] = "done" /\ digits[1] \in {1, 5, 10, 50, 100})
    => WithinOfPi(result[1], digits[1])

\* C2: a call with digits <= 0 fails with the invalid-argument error before
\* any computation: no context is entered or changed, a, b, t, p are never
\* initialized and no iteration runs.
C2_RejectedBeforeComputation ==
  \A th \in Threads :
    (pc[th] \notin {"idle", "off"} /\ digits[th] <= 0) =>
      /\ pc[th] = "raised"
      /\ err[th] = "ValueError"
      /\ local[th] = NoCtx
      /\ saved[th] = NoRef
      /\ current[CtxSlot(th)] = <<"ambient", th>>
      /\ a[th] = Unset /\ b[th] = Unset /\ t[th] = Unset /\ p[th] = Unset
      /\ pi_estimate[th] = Unset /\ result[th] = Unset
      /\ iters[th] = 0
      /\ usedPrec[th] = 0

C2_Witness == pc[1] = "raised" /\ digits[1] = 0 /\ err[1] = "ValueError"

\* C3: for digits >= 1 the loop terminates: a call that has passed the
\* argument check eventually returns a value, with |a - b| below the
\* threshold.
C3_Terminates ==
  /\ (pc[1] = "validated") ~> (pc[1] = "done" /\ result[1] # Unset)
  /\ [](pc[1] = "done" => TestHolds(1))

C3_Witness == pc[1] = "done" /\ iters[1] = 4 /\ result[1] # Unset

\* C4: the returned value is the final estimate rounded to nearest to
\* exactly digits significant digits; gauss_legendre_pi(1) returns 3.
C4_RoundedToNearest ==
  pc[1] = "done" =>
    /\ NumDigits(result[1].int) = digits[1]
    /\ DCmp(DMul(DecLit(2), AbsDiff(result[1], pi_estimate[1]), ExactCtx),
            TenTo(result[1].exp)) <= 0
    /\ (digits[1] = 1 => result[1] = DecLit(3))

\* C5: the returned value carries digits digits after the decimal point and
\* all of them are digits of pi.
C5_DigitsAfterThePoint ==
  pc[1] = "done" =>
    /\ result[1].exp = -digits[1]
    /\ result[1].int = PiPrefix(digits[1] + 1)

\* C6: two calls with the same digits return identical values, whatever the
\* ambient context of the caller.
C6_SameDigitsSameValue ==
  (pc[1] = "done" /\ pc[2] = "done" /\ digits[1] = digits[2])
    => result[1] = result[2]

\* C7: under any interleaving of two calls every arithmetic step of a call
\* runs at the call's own precision (digits + 10, then digits for the final
\* rounding), and once the call has returned or raised the caller's ambient
\* context is the one from before the call.
C7_PrecisionScopedPerCall ==
  \A th \in Threads :
    /\ pc[th] \in {"init", "loop", "exited"} =>
         GetContext(th).prec = digits[th] + extra_precision
    /\ pc[th] \in {"loop", "exited", "final"} =>
         usedPrec[th] = digits[th] + extra_precision
    /\ pc[th] = "final" => GetContext(th).prec = digits[th]
    /\ pc[th] = "done" => usedPrec[th] = digits[th]
    /\ pc[th] \in {"done", "raised"} =>
         /\ current[CtxSlot(th)] = <<"ambient", th>>
         /\ GetContext(th) = ambient[th]

C7_Witness ==
  /\ pc[1] = "loop" /\ iters[1] = 1
  /\ pc[2] = "final"
  /\ digits[1] # digits[2]
  /\ ambient[1] # ambient[2]

\* C8: for digits1 < digits2 the call with digits2 executes at least as many
\* loop iterations as the call with digits1.
C8_MonotoneIterations ==
  \A t1, t2 \in Threads :
    (pc[t1] = "done" /\ pc[t2] = "done" /\ digits[t1] < digits[t2])
      => iters[t1] <= iters[t2]

C8_Witness ==
  /\ pc[1] = "done" /\ pc[2] = "done"
  /\ digits[1] < digits[2]
  /\ iters[1] < iters[2]

\* C9: each iteration computes b as sqrt(a * b) from the a and b before the
\* update and tests |a - b| < threshold on the updated a and b; the loop
\* exits at the end of the first iteration in which the test holds, and the
\* value returned is the estimate (a + b)^2 / (4t) of that same iteration,
\* rounded.
C9_StopAtFirstConvergedIteration ==
  /\ (InLoop(1) /\ iters[1] >= 1) =>
       /\ a[1] = DDiv(DAdd(a_prev[1], b_prev[1], WorkCtx(1)), DecLit(2),
                      WorkCtx(1))
       /\ b[1] = DSqrt(DMul(a_prev[1], b_prev[1], WorkCtx(1)), WorkCtx(1))
  /\ (pc[1] = "loop" /\ iters[1] >= 1) => ~TestHolds(1)
  /\ pc[1] \in {"exited", "final", "done"} =>
       /\ TestHolds(1)
       /\ pi_estimate[1] = Estimate(1)
  /\ pc[1] = "done" => result[1] = DPos(Estimate(1), FinalCtx(1))

C9_Witness == pc[1] = "done" /\ iters[1] = 3 /\ ambient[1].prec = DefaultPrec

IsPositive(x) == x # Unset /\ ~IsZero(x) /\ x.sign = 0

\* C10 as stated: in every state of the loop t > 0, a * b >= 0 and
\* a >= b > 0, and a call with digits >= 1 never raises.
C10_MeansOrdered ==
  /\ InLoop(1) =>
       /\ IsPositive(t[1])
       /\ DCmp(DMul(a[1], b[1], WorkCtx(1)), DecLit(0)) >= 0
       /\ DCmp(a[1], b[1]) >= 0
       /\ IsPositive(b[1])
  /\ digits[1] >= 1 => pc[1] # "raised"

\* C10 as amended: in every state of the loop t > 0, a > 0 and b > 0 (so
\* a * b >= 0 and 4t # 0), and a call with digits >= 1 never raises; a may
\* fall below b once the two means have met.
C10_PositiveState ==
  /\ InLoop(1) =>
       /\ IsPositive(t[1])
       /\ IsPositive(a[1])
       /\ IsPositive(b[1])
       /\ DCmp(DMul(a[1], b[1], WorkCtx(1)), DecLit(0)) >= 0
       /\ ~IsZero(DMul(DecLit(4), t[1], WorkCtx(1)))
  /\ digits[1] >= 1 => (pc[1] # "raised" /\ err[1] = "none")
  /\ pc[1] = "raised" => (digits[1] <= 0 /\ err[1] = "ValueError")

C10_Witness ==
  /\ pc[1] = "done"
  /\ ambient[1].rounding = "ROUND_HALF_EVEN"
  /\ DLess(a[1], b[1])

====
